---- MODULE Spec2Model ----
(***************************************************************************)
(* Model of the subgraph sync checker (src/main.go).                       *)
(*                                                                         *)
(* main() calls checkSubgraphs once at startup and then once per ticker    *)
(* tick.  checkSubgraphs refreshes the latest block of every chain, groups *)
(* the subgraphs by chain and, for every chain with a nonzero latest       *)
(* block, fetches each subgraph's current block, records it in the         *)
(* subgraph's bounded history, derives blocks-behind / sync speed / ETA /  *)
(* progress and prints one row.                                            *)
(*                                                                         *)
(* Time is counted in whole minutes.  Floating-point values (SyncSpeed,    *)
(* progressPct) are kept as exact fractions [num, den]; the float64        *)
(* rounding of the Go code is not modelled.                                *)
(***************************************************************************)
EXTENDS Integers, Sequences, FiniteSets, TLC

----------------------------------------------------------------------------
(* Bounds of the model *)

\* largest block height a chain or a subgraph reports
MaxBlock == 3
\* largest history window (MaxHistoryEntries) a configuration chooses
MaxWindow == 2
\* number of successful subgraph fetches in a run of LiveSpec
LiveSamples == 1

\* number of successful subgraph fetches in a run of Spec: enough to
\* overflow the largest window
MaxSamples == MaxWindow + 1

\* minutes that can pass between two successive recordings of a sample; two
\* recordings are always separated by a tick wait or at least by the chain
\* fetches of the next cycle, so time.Now() strictly advances between them
TimeSteps == {1, 2}

\* block heights a chain reports
ChainHeights == {0, MaxBlock}

----------------------------------------------------------------------------
(* Static configuration: main(), chains and subgraphs literals *)

ChainNames == {"pulsechain", "ethereum"}

\* the subgraphs slice, in configuration order
SubgraphList == <<"PulseX PulseChain V2">>

SubgraphNames == {SubgraphList[i] : i \in 1..Len(SubgraphList)}

\* SubgraphInfo.Chain of every configured subgraph
SubgraphChain(s) == "pulsechain"

----------------------------------------------------------------------------
(* Exact fractions standing for float64 values *)

Frac(n, d) == [num |-> n, den |-> d]

\* int64(float) conversion truncates toward zero; d > 0
TruncDiv(n, d) == IF n >= 0 THEN n \div d ELSE -((-n) \div d)

----------------------------------------------------------------------------
(* getLatestBlockFromChain: the chain's JSON-RPC answer *)

HexDigits == <<"0", "1", "2", "3", "4", "5", "6", "7", "8", "9",
               "a", "b", "c", "d", "e", "f">>

IsHexDigit(ch) == \E i \in 1..Len(HexDigits) : HexDigits[i] = ch

HexValue(ch) == (CHOOSE i \in 1..Len(HexDigits) : HexDigits[i] = ch) - 1

\* "0x%x" of n, one or two digits
HexString(n) ==
    IF n < 16 THEN <<"0", "x", HexDigits[n + 1]>>
    ELSE <<"0", "x", HexDigits[(n \div 16) + 1], HexDigits[(n % 16) + 1]>>

\* number of leading hex digits of str from position i on
RECURSIVE HexRun(_, _)
HexRun(str, i) ==
    IF i <= Len(str) /\ IsHexDigit(str[i]) THEN 1 + HexRun(str, i + 1) ELSE 0

\* value of the n hex digits of str starting at position i
RECURSIVE HexNumber(_, _, _)
HexNumber(str, i, n) ==
    IF n = 0 THEN 0
    ELSE 16 * HexNumber(str, i, n - 1) + HexValue(str[i + n - 1])

\* fmt.Sscanf(result.Result, "0x%x", &blockNumber) with its error dropped:
\* the literal "0x" must match, then the longest run of hex digits is read;
\* on any mismatch blockNumber keeps its zero value
ScanHex(str) ==
    IF Len(str) >= 2 /\ str[1] = "0" /\ str[2] = "x"
    THEN HexNumber(str, 3, HexRun(str, 3))
    ELSE 0

\* what the RPC endpoint can answer: no answer at all, a body that is not
\* JSON, or a JSON object whose "result" is the given text ("" when the
\* field is absent) and which may carry an "error" member
ResultTexts ==
    {HexString(n) : n \in ChainHeights}
        \cup {<<>>, <<"0", "x", "g">>}

ChainResponses ==
    {[kind |-> "transport", hasError |-> FALSE, result |-> <<>>],
     [kind |-> "malformed", hasError |-> FALSE, result |-> <<>>],
     [kind |-> "json", hasError |-> TRUE, result |-> <<>>]}
        \cup {[kind |-> "json", hasError |-> FALSE, result |-> t] :
                t \in ResultTexts}

\* getLatestBlockFromChain(chainName, rpcURL) -> (blockNumber, err)
getLatestBlockFromChain(resp) ==
    IF resp.kind = "transport" THEN [value |-> 0, err |-> TRUE]
    ELSE IF resp.kind = "malformed" THEN [value |-> 0, err |-> TRUE]
    ELSE [value |-> ScanHex(resp.result), err |-> FALSE]

----------------------------------------------------------------------------
(* getCurrentBlock: the subgraph's GraphQL answer *)

SubgraphResponses ==
    {[kind |-> "transport", errors |-> FALSE, number |-> 0],
     [kind |-> "malformed", errors |-> FALSE, number |-> 0],
     [kind |-> "json", errors |-> TRUE, number |-> 0]}
        \cup {[kind |-> "json", errors |-> FALSE, number |-> n] :
                n \in 0..MaxBlock}

\* getCurrentBlock(url, queryStr) -> (number, err)
getCurrentBlock(resp) ==
    IF resp.kind = "transport" THEN [value |-> 0, err |-> TRUE]
    ELSE IF resp.kind = "malformed" THEN [value |-> 0, err |-> TRUE]
    ELSE IF resp.errors THEN [value |-> 0, err |-> TRUE]
    ELSE IF resp.number = 0 THEN [value |-> 0, err |-> TRUE]
    ELSE [value |-> resp.number, err |-> FALSE]

----------------------------------------------------------------------------
(* Program state *)

VARIABLES
    LatestBlock,   \* ChainInfo.LatestBlock of every chain
    subgraphs,     \* the SubgraphInfo of every subgraph
    pc,            \* where main / checkSubgraphs stands
    chainsLeft,    \* chains the first loop of checkSubgraphs has not visited
    groupsLeft,    \* keys of subgraphsByChain the report loop has not visited
    group,         \* chainName of the report loop's current iteration
    idx,           \* position of the inner loop in chainSubgraphs
    clock,         \* the last reading of time.Now(), in minutes
    budget,        \* successful subgraph fetches the environment still grants
    rows,          \* table rows printed in the current cycle
    failed,        \* subgraphs whose fetch error was logged in the current cycle
    chainFetch,    \* the chain fetch just made: answer, error, value before it
    sgFetch,       \* the subgraph check just made: error, SubgraphInfo before it
    recorded       \* every (block, time) sample recorded so far, per subgraph

vars == <<LatestBlock, subgraphs, pc, chainsLeft, groupsLeft, group, idx,
          clock, budget, rows, failed, chainFetch, sgFetch, recorded>>

\* the zero value of SubgraphInfo with the configured MaxHistoryEntries
NewSubgraphInfo(max) ==
    [CurrentBlock |-> 0,
     LastBlock |-> 0,
     BlocksBehind |-> 0,
     SyncSpeed |-> Frac(0, 1),
     EstimatedTimeLeft |-> 0,
     LastCheckedBlocks |-> <<>>,
     LastCheckedTimes |-> <<>>,
     MaxHistoryEntries |-> max]

\* subgraphsByChain[c]: the subgraphs of chain c in configuration order
SubgraphsByChain(c) == SelectSeq(SubgraphList, LAMBDA s : SubgraphChain(s) = c)

\* the keys of subgraphsByChain
GroupKeys == {SubgraphChain(s) : s \in SubgraphNames}

----------------------------------------------------------------------------
(* The body of the inner loop of checkSubgraphs *)

\* "Store history": append the sample to both slices
AppendSample(sg, currentBlock, now) ==
    [sg EXCEPT !.LastCheckedBlocks = Append(@, currentBlock),
               !.LastCheckedTimes = Append(@, now)]

\* variant of TrimHistory: the trim test is off by one
TrimHistoryLate(sg) ==
    IF Len(sg.LastCheckedBlocks) > sg.MaxHistoryEntries + 1
    THEN [sg EXCEPT !.LastCheckedBlocks = Tail(@),
                    !.LastCheckedTimes = Tail(@)]
    ELSE sg

\* variant of TrimHistory: the newest entry is dropped instead of the oldest
TrimHistoryNewest(sg) ==
    IF Len(sg.LastCheckedBlocks) > sg.MaxHistoryEntries
    THEN [sg EXCEPT
            !.LastCheckedBlocks = SubSeq(@, 1, Len(@) - 1),
            !.LastCheckedTimes = SubSeq(@, 1, Len(@) - 1)]
    ELSE sg

\* "Trim history to max entries": drop the oldest entry of both slices
TrimHistory(sg) ==
    IF Len(sg.LastCheckedBlocks) > sg.MaxHistoryEntries
    THEN [sg EXCEPT !.LastCheckedBlocks = Tail(@),
                    !.LastCheckedTimes = Tail(@)]
    ELSE sg

\* "Calculate sync metrics"
SyncMetrics(sg, currentBlock, latestBlock) ==
    [sg EXCEPT !.CurrentBlock = currentBlock,
               !.LastBlock = latestBlock,
               !.BlocksBehind = latestBlock - currentBlock]

\* variant of EtaFor: a speed <= 0 leaves the previous ETA in place
EtaForKeepsStale(sg, speed) ==
    IF speed.num > 0
    THEN TruncDiv(sg.BlocksBehind * speed.den, speed.num)
    ELSE sg.EstimatedTimeLeft

\* the ETA branch: speed > 0 computes it, otherwise it is set to 0
EtaFor(sg, speed) ==
    IF speed.num > 0
    THEN TruncDiv(sg.BlocksBehind * speed.den, speed.num)
    ELSE 0

\* "Calculate sync speed and ETA only if we have at least 2 data points"
SpeedAndEta(sg) ==
    IF Len(sg.LastCheckedBlocks) >= 2
    THEN LET firstIdx == 1
             lastIdx == Len(sg.LastCheckedBlocks)
             blockDiff == sg.LastCheckedBlocks[lastIdx]
                              - sg.LastCheckedBlocks[firstIdx]
             timeDiff == sg.LastCheckedTimes[lastIdx]
                              - sg.LastCheckedTimes[firstIdx]
         IN  IF timeDiff > 0
             THEN [sg EXCEPT !.SyncSpeed = Frac(blockDiff, timeDiff),
                             !.EstimatedTimeLeft =
                                 EtaFor(sg, Frac(blockDiff, timeDiff))]
             ELSE sg
    ELSE sg

\* variant of ProgressPct: the ratio is taken the wrong way round
ProgressPctInverted(sg, currentBlock, latestBlock) ==
    IF sg.BlocksBehind > 0 /\ latestBlock > 0
    THEN Frac(latestBlock * 100, currentBlock)
    ELSE Frac(100, 1)

\* "Calculate progress percentage"
ProgressPct(sg, currentBlock, latestBlock) ==
    IF sg.BlocksBehind > 0 /\ latestBlock > 0
    THEN Frac(currentBlock * 100, latestBlock)
    ELSE Frac(100, 1)

\* rounding of n/d to the nearest integer, n >= 0, d > 0
Rounded(n, d) == (2 * n + d) \div (2 * d)

\* variant of EtaDisplay: an ETA of 0 is formatted as minutes
EtaDisplayZeroMinutes(sg) ==
    IF sg.EstimatedTimeLeft >= 0
    THEN [text |-> "m", value |-> sg.EstimatedTimeLeft]
    ELSE IF sg.BlocksBehind = 0
    THEN [text |-> "In sync", value |-> 0]
    ELSE [text |-> "Unknown", value |-> 0]

\* "Format ETA for display": days and hours with one decimal (value in
\* tenths), minutes with none
EtaDisplay(sg) ==
    IF sg.EstimatedTimeLeft > 0
    THEN IF sg.EstimatedTimeLeft >= 24 * 60
         THEN [text |-> "d", value |-> Rounded(sg.EstimatedTimeLeft * 10, 24 * 60)]
         ELSE IF sg.EstimatedTimeLeft >= 60
         THEN [text |-> "h", value |-> Rounded(sg.EstimatedTimeLeft * 10, 60)]
         ELSE [text |-> "m", value |-> sg.EstimatedTimeLeft]
    ELSE IF sg.BlocksBehind = 0
    THEN [text |-> "In sync", value |-> 0]
    ELSE [text |-> "Unknown", value |-> 0]

\* variant of Checked: speed and ETA are derived before the history is trimmed
CheckedBeforeTrim(sg, currentBlock, latestBlock, now) ==
    TrimHistory(
        SpeedAndEta(
            SyncMetrics(AppendSample(sg, currentBlock, now),
                        currentBlock, latestBlock)))

\* the subgraph after a successful fetch: lines 132-166
Checked(sg, currentBlock, latestBlock, now) ==
    SpeedAndEta(
        SyncMetrics(TrimHistory(AppendSample(sg, currentBlock, now)),
                    currentBlock, latestBlock))

\* the row printed for the subgraph
Row(name, sg, currentBlock, latestBlock) ==
    [Name |-> name,
     LatestBlock |-> latestBlock,
     CurrentBlock |-> sg.CurrentBlock,
     BlocksBehind |-> sg.BlocksBehind,
     SyncSpeed |-> sg.SyncSpeed,
     etaDisplay |-> EtaDisplay(sg),
     progressPct |-> ProgressPct(sg, currentBlock, latestBlock)]

\* variant of FetchFailed: a failed fetch records a zero sample
FetchFailedRecords(sg) == TrimHistory(AppendSample(sg, 0, 0))

\* variant of FetchFailed: a failed fetch resets the displayed fields
FetchFailedResets(sg) ==
    [sg EXCEPT !.CurrentBlock = 0,
               !.SyncSpeed = Frac(0, 1),
               !.EstimatedTimeLeft = 0]

\* the subgraph after a failed fetch: the error is logged and the loop
\* continues with the next subgraph
FetchFailed(sg) == sg

\* variant of AfterFetchError: the loop stays on the subgraph that failed
AfterFetchErrorRetries(i) == i

\* `continue` after a failed fetch: the loop moves to the next subgraph
AfterFetchError(i) == i + 1

----------------------------------------------------------------------------
(* Actions *)

NoChainFetch ==
    [chain |-> "",
     resp |-> [kind |-> "transport", hasError |-> FALSE, result |-> <<>>],
     err |-> FALSE,
     before |-> 0]

NoSgFetch == [name |-> "", err |-> FALSE, before |-> NewSubgraphInfo(0)]

InitWith(samples) ==
    /\ LatestBlock = [c \in ChainNames |-> 0]
    /\ subgraphs \in [SubgraphNames -> {NewSubgraphInfo(m) : m \in 0..MaxWindow}]
    /\ pc = "main"
    /\ chainsLeft = {}
    /\ groupsLeft = {}
    /\ group = ""
    /\ idx = 0
    /\ clock = 0
    /\ budget = samples
    /\ rows = <<>>
    /\ failed = {}
    /\ chainFetch = NoChainFetch
    /\ sgFetch = NoSgFetch
    /\ recorded = [s \in SubgraphNames |-> <<>>]

Init == InitWith(MaxSamples)

\* entry of checkSubgraphs
EnterCheck ==
    /\ pc' = "chains"
    /\ chainsLeft' = ChainNames
    /\ rows' = <<>>
    /\ failed' = {}
    /\ UNCHANGED <<LatestBlock, subgraphs, groupsLeft, group, idx, clock,
                   budget, chainFetch, sgFetch, recorded>>

\* main: "Check once immediately at startup"
CheckAtStartup ==
    /\ pc = "main"
    /\ EnterCheck

\* main: `for range ticker.C { checkSubgraphs(...) }`
TickerFires ==
    /\ pc = "ticker"
    /\ EnterCheck

\* one iteration of `for chainName, chainInfo := range chains`; Go visits
\* the map in no fixed order
FetchChain ==
    /\ pc = "chains"
    /\ \E c \in chainsLeft, resp \in ChainResponses :
          LET r == getLatestBlockFromChain(resp)
          IN  /\ LatestBlock' =
                    IF r.err THEN LatestBlock
                    ELSE [LatestBlock EXCEPT ![c] = r.value]
              /\ chainFetch' = [chain |-> c, resp |-> resp, err |-> r.err,
                                before |-> LatestBlock[c]]
              /\ chainsLeft' = chainsLeft \ {c}
    /\ UNCHANGED <<subgraphs, pc, groupsLeft, group, idx, clock, budget,
                   rows, failed, sgFetch, recorded>>

\* "Group subgraphs by chain for the report"
GroupSubgraphs ==
    /\ pc = "chains"
    /\ chainsLeft = {}
    /\ pc' = "groups"
    /\ groupsLeft' = GroupKeys
    /\ chainFetch' = NoChainFetch
    /\ UNCHANGED <<LatestBlock, subgraphs, chainsLeft, group, idx, clock,
                   budget, rows, failed, sgFetch, recorded>>

\* one iteration of `for chainName, chainSubgraphs := range subgraphsByChain`
\* up to the inner loop: unknown chains and chains whose latest block is 0
\* are skipped
VisitGroup ==
    /\ pc = "groups"
    /\ \E c \in groupsLeft :
          /\ groupsLeft' = groupsLeft \ {c}
          /\ IF c \notin ChainNames \/ LatestBlock[c] = 0
             THEN UNCHANGED <<pc, group, idx>>
             ELSE /\ pc' = "subgraphs"
                  /\ group' = c
                  /\ idx' = 1
    /\ UNCHANGED <<LatestBlock, subgraphs, chainsLeft, clock, budget, rows,
                   failed, chainFetch, sgFetch, recorded>>

\* one iteration of `for _, sg := range chainSubgraphs`
CheckSubgraph ==
    /\ pc = "subgraphs"
    /\ idx <= Len(SubgraphsByChain(group))
    /\ \E resp \in SubgraphResponses :
          LET name == SubgraphsByChain(group)[idx]
              latestBlock == LatestBlock[group]
              r == getCurrentBlock(resp)
          IN  /\ sgFetch' = [name |-> name, err |-> r.err,
                             before |-> subgraphs[name]]
              /\ IF r.err
                 THEN /\ subgraphs' =
                            [subgraphs EXCEPT ![name] = FetchFailed(@)]
                      /\ failed' = failed \cup {name}
                      /\ idx' = AfterFetchError(idx)
                      /\ UNCHANGED <<clock, budget, rows, recorded>>
                 ELSE /\ budget > 0
                      /\ budget' = budget - 1
                      /\ \E now \in {clock + d : d \in TimeSteps} :
                            /\ clock' = now
                            /\ subgraphs' =
                                  [subgraphs EXCEPT ![name] =
                                      Checked(@, r.value, latestBlock, now)]
                            /\ recorded' =
                                  [recorded EXCEPT ![name] =
                                      Append(@, <<r.value, now>>)]
                      /\ rows' = Append(rows,
                            Row(name, subgraphs'[name], r.value, latestBlock))
                      /\ idx' = idx + 1
                      /\ UNCHANGED failed
    /\ UNCHANGED <<LatestBlock, pc, chainsLeft, groupsLeft, group, chainFetch>>

\* the inner loop is exhausted: back to the report loop
EndGroup ==
    /\ pc = "subgraphs"
    /\ idx > Len(SubgraphsByChain(group))
    /\ pc' = "groups"
    /\ group' = ""
    /\ idx' = 0
    /\ sgFetch' = NoSgFetch
    /\ UNCHANGED <<LatestBlock, subgraphs, chainsLeft, groupsLeft, clock,
                   budget, rows, failed, chainFetch, recorded>>

\* checkSubgraphs returns; main waits for the next tick
Return ==
    /\ pc = "groups"
    /\ groupsLeft = {}
    /\ pc' = "ticker"
    /\ UNCHANGED <<LatestBlock, subgraphs, chainsLeft, groupsLeft, group, idx,
                   clock, budget, rows, failed, chainFetch, sgFetch, recorded>>

Next ==
    \/ CheckAtStartup
    \/ TickerFires
    \/ FetchChain
    \/ GroupSubgraphs
    \/ VisitGroup
    \/ CheckSubgraph
    \/ EndGroup
    \/ Return

Spec == Init /\ [][Next]_vars

\* the program is sequential: every fetch returns within its timeout and the
\* ticker keeps firing, so a step that can be taken is taken
LiveInit == InitWith(LiveSamples)

LiveSpec == LiveInit /\ [][Next]_vars /\ WF_vars(Next)

----------------------------------------------------------------------------
(* Properties *)

Min(a, b) == IF a < b THEN a ELSE b

\* the subgraph check just made succeeded / failed
JustChecked(s) == sgFetch.name = s /\ ~sgFetch.err
JustFailed(s) == sgFetch.name = s /\ sgFetch.err

\* the history window has at least 2 samples and positive elapsed time
NonDegenerate(sg) ==
    /\ Len(sg.LastCheckedBlocks) >= 2
    /\ sg.LastCheckedTimes[Len(sg.LastCheckedTimes)] > sg.LastCheckedTimes[1]

\* the samples recorded for s outnumber its window: an entry was evicted
Evicted(s) == Len(recorded[s]) > subgraphs[s].MaxHistoryEntries

\* C1: for every subgraph the block history and the timestamp history have
\* equal length, and that length is at most MaxHistoryEntries, after every
\* sample-recording step and any mix of successful and failed fetches.
C1_HistoryBounded ==
    \A s \in SubgraphNames :
        /\ Len(subgraphs[s].LastCheckedBlocks) = Len(subgraphs[s].LastCheckedTimes)
        /\ Len(subgraphs[s].LastCheckedBlocks) <= subgraphs[s].MaxHistoryEntries

\* a sample was just recorded into a full window, evicting the oldest
C1_Witness ==
    \E s \in SubgraphNames :
        /\ JustChecked(s)
        /\ Evicted(s)
        /\ subgraphs[s].MaxHistoryEntries >= 1
        /\ Len(subgraphs[s].LastCheckedBlocks) = subgraphs[s].MaxHistoryEntries

\* C2: a failed subgraph fetch leaves the subgraph's block-height and
\* timestamp sequences exactly as they were before it: nothing appended,
\* nothing evicted.
C2_FailureKeepsHistory ==
    \A s \in SubgraphNames :
        JustFailed(s) =>
            /\ subgraphs[s].LastCheckedBlocks = sgFetch.before.LastCheckedBlocks
            /\ subgraphs[s].LastCheckedTimes = sgFetch.before.LastCheckedTimes

\* a fetch failed for a subgraph whose history was not empty
C2_Witness ==
    \E s \in SubgraphNames :
        /\ JustFailed(s)
        /\ Len(sgFetch.before.LastCheckedBlocks) >= 1

ValidBlockHeight(resp) ==
    /\ resp.kind = "json"
    /\ ~resp.hasError
    /\ Len(resp.result) >= 3
    /\ resp.result[1] = "0"
    /\ resp.result[2] = "x"
    /\ \A i \in 3..Len(resp.result) : IsHexDigit(resp.result[i])

\* C4: if a chain-block fetch does not yield a valid block height (transport
\* failure, a JSON-RPC answer carrying an error, a result that is absent or
\* not valid hex), the fetch reports an error and the chain's latest block
\* stays what it was before: a nonzero latest block is never overwritten by
\* a failed fetch.
C4_FailedChainFetchKeepsLatest ==
    \A c \in ChainNames :
        (chainFetch.chain = c /\ ~ValidBlockHeight(chainFetch.resp)) =>
            /\ chainFetch.err
            /\ LatestBlock[c] = chainFetch.before

\* C5: after every successful sample recording whose window holds at least 2
\* samples with the newest strictly later than the oldest, the sync speed is
\* (newest block - oldest block) / elapsed minutes of the trimmed window.
C5_SpeedFromWindow ==
    \A s \in SubgraphNames :
        (JustChecked(s) /\ NonDegenerate(subgraphs[s])) =>
            LET sg == subgraphs[s]
                n == Len(sg.LastCheckedBlocks)
            IN  /\ sg.SyncSpeed.den > 0
                /\ sg.SyncSpeed.num * (sg.LastCheckedTimes[n] - sg.LastCheckedTimes[1])
                      = (sg.LastCheckedBlocks[n] - sg.LastCheckedBlocks[1])
                            * sg.SyncSpeed.den

\* a speed other than 0 was derived from a window that had evicted a sample
C5_Witness ==
    \E s \in SubgraphNames :
        /\ JustChecked(s)
        /\ NonDegenerate(subgraphs[s])
        /\ Evicted(s)
        /\ subgraphs[s].SyncSpeed.num # 0

\* the check just made derived a sync speed <= 0 for s
SpeedNotPositive(s) ==
    /\ JustChecked(s)
    /\ NonDegenerate(subgraphs[s])
    /\ subgraphs[s].SyncSpeed.num <= 0

\* C6 as stated: when the sync speed computed for a subgraph is <= 0, the
\* ETA is not computed: it is after the cycle what it was before.
C6_StalledEtaUnchanged ==
    \A s \in SubgraphNames :
        SpeedNotPositive(s) =>
            subgraphs[s].EstimatedTimeLeft = sgFetch.before.EstimatedTimeLeft

\* C6 amended: when the sync speed computed for a subgraph is <= 0, the ETA
\* is set to 0, whatever it was before.
C6_StalledEtaZero ==
    \A s \in SubgraphNames :
        SpeedNotPositive(s) => subgraphs[s].EstimatedTimeLeft = 0

\* a stalled or regressed subgraph that had a positive ETA before
C6_Witness ==
    \E s \in SubgraphNames :
        /\ SpeedNotPositive(s)
        /\ sgFetch.before.EstimatedTimeLeft > 0

\* SubgraphInfo declares no start block and no configuration sets one: the
\* start block of every subgraph is unset
StartBlock(s) == 0

AllAttempted ==
    \A s \in SubgraphNames :
        (SubgraphChain(s) \in ChainNames /\ LatestBlock[SubgraphChain(s)] # 0) =>
            \/ s \in failed
            \/ \E i \in 1..Len(rows) : rows[i].Name = s

\* C8: no fetch failure is fatal: every started check cycle eventually
\* completes having attempted every subgraph of every chain with a known
\* nonzero latest block, and the next cycle is then eventually started.
C8_CyclesKeepRunning ==
    /\ (pc = "chains") ~> (pc = "ticker" /\ AllAttempted)
    /\ (pc = "ticker") ~> (pc = "chains")

\* a cycle completed in which a chain fetch had succeeded before and the
\* subgraph fetch failed
C8_Witness ==
    /\ pc = "ticker"
    /\ failed = SubgraphNames
    /\ budget < LiveSamples

\* C9: after k successful recordings for a subgraph with maximum N >= 1 the
\* window holds exactly the min(k, N) most recently recorded (block, time)
\* samples in recording order, and the current block is the block of the
\* newest entry.
C9_WindowIsSuffix ==
    \A s \in SubgraphNames :
        subgraphs[s].MaxHistoryEntries >= 1 =>
            LET sg == subgraphs[s]
                k == Len(recorded[s])
                m == Min(k, sg.MaxHistoryEntries)
            IN  /\ Len(sg.LastCheckedBlocks) = m
                /\ Len(sg.LastCheckedTimes) = m
                /\ \A i \in 1..m :
                      <<sg.LastCheckedBlocks[i], sg.LastCheckedTimes[i]>>
                          = recorded[s][k - m + i]
                /\ k >= 1 => sg.CurrentBlock = sg.LastCheckedBlocks[m]

\* more samples were recorded than a window of at least 2 holds
C9_Witness ==
    \E s \in SubgraphNames :
        /\ subgraphs[s].MaxHistoryEntries >= 2
        /\ Evicted(s)

====
